---- MODULE Spec2Model ----
(***************************************************************************)
(* Schema-driven field rendering (crate schema_ui_system).                 *)
(*                                                                         *)
(* The registry (src/src/schema.rs) resolves, for a table, a field and a   *)
(* presentation context, the variant to render and synthesises an HTML     *)
(* string from it.  Strings that end up in HTML are sequences of one-      *)
(* character strings, so that concatenation and str::replace are computed  *)
(* character by character.  Names used only as map keys (tables, fields,   *)
(* contexts, variants, tags, attribute names, themes) are TLA+ strings and *)
(* Chars gives their characters.                                           *)
(*                                                                         *)
(* A HashMap whose iteration order is observable is a record               *)
(* [map |-> key -> value, iter |-> the keys in iteration order]; the       *)
(* iteration order of a std HashMap is fixed by its RandomState and is not *)
(* the insertion (declaration) order.                                      *)
(***************************************************************************)
EXTENDS Integers, Sequences, FiniteSets, TLC

VARIABLES documents, registry, declared, components, op, args, ret

vars == <<documents, registry, declared, components, op, args, ret>>

(***************************************************************************)
(* Bounds                                                                  *)
(***************************************************************************)
\* Number of nested resolve_variant_for_field frames the stack holds.
StackDepth == 5

(***************************************************************************)
(* Option<T>                                                               *)
(***************************************************************************)
None == [kind |-> "None"]

(***************************************************************************)
(* Result<T, E>                                                            *)
(***************************************************************************)
Ok(v) == [kind |-> "Ok", val |-> v]

Err(e) == [kind |-> "Err", err |-> e]

Some(v) == [kind |-> "Some", val |-> v]

\* A call that does not return: unbounded recursion.
NoReturn == [kind |-> "NoReturn"]

\* What a caller observes of a call that does not return: the recursion is
\* in tail position, so a build either exhausts the stack (abort) or, with
\* the call turned into a jump, loops for ever.
Observed(r) ==
  IF r = NoReturn
  THEN {[kind |-> "StackOverflow"], [kind |-> "EndlessLoop"]}
  ELSE {r}

EmptyMap == [x \in {} |-> x]

\* COMPONENT_REGISTRY before its first use: no component discovered yet.
NotDiscovered == EmptyMap

\* The sequences that list every element of S once.
Orderings(S) ==
  {s \in [1..Cardinality(S) -> S] : \A i, j \in DOMAIN s : s[i] = s[j] => i = j}

(***************************************************************************)
(* Characters of the names and literals                                    *)
(***************************************************************************)
Chars ==
  [ h1 |-> <<"h", "1">>,
    h2 |-> <<"h", "2">>,
    span |-> <<"s", "p", "a", "n">>,
    img |-> <<"i", "m", "g">>,
    input |-> <<"i", "n", "p", "u", "t">>,
    br |-> <<"b", "r">>,
    hr |-> <<"h", "r">>,
    name |-> <<"n", "a", "m", "e">>,
    nonexistent |-> <<"n", "o", "n", "e", "x", "i", "s", "t", "e", "n", "t">>,
    src |-> <<"s", "r", "c">>,
    alt |-> <<"a", "l", "t">>,
    class |-> <<"c", "l", "a", "s", "s">>,
    id |-> <<"i", "d">>,
    title |-> <<"t", "i", "t", "l", "e">>,
    a |-> <<"a">>,
    b |-> <<"b">> ]

\* The name whose characters are chars, among names.
NameOf(chars, names) == CHOOSE n \in names : Chars[n] = chars

\* The bytes of the characters templates are made of.
Byte == ("a" :> 97) @@ ("b" :> 98) @@ ("{" :> 123) @@ ("}" :> 125)

\* Ord for String: lexicographic comparison of the bytes.
RECURSIVE StrLess(_, _)
StrLess(s, t) ==
  IF t = <<>> THEN FALSE
  ELSE IF s = <<>> THEN TRUE
  ELSE IF Byte[Head(s)] # Byte[Head(t)] THEN Byte[Head(s)] < Byte[Head(t)]
  ELSE StrLess(Tail(s), Tail(t))

TextXl == <<"t", "e", "x", "t", "-", "x", "l">>

FontBold == <<"f", "o", "n", "t", "-", "b", "o", "l", "d">>

TextSm == <<"t", "e", "x", "t", "-", "s", "m">>

JohnDoe == <<"J", "o", "h", "n", " ", "D", "o", "e">>

ValuePlaceholder == <<"{", "v", "a", "l", "u", "e", "}">>

FieldPlaceholder == <<"{", "f", "i", "e", "l", "d", "}">>

(***************************************************************************)
(* str::replace for a non-empty pattern: the non-overlapping matches, left *)
(* to right, are replaced; the replacement is not scanned again.           *)
(***************************************************************************)
\* str::match_indices: the positions at which from occurs in s.
MatchIndices(s, from) ==
  {i \in 1..(Len(s) - Len(from) + 1) : SubSeq(s, i, i + Len(from) - 1) = from}

RECURSIVE Replace(_, _, _)
Replace(s, from, to) ==
  LET found == MatchIndices(s, from)
  IN IF found = {} THEN s
     ELSE LET i == CHOOSE k \in found : \A m \in found : k <= m
          IN SubSeq(s, 1, i - 1) \o to
             \o Replace(SubSeq(s, i + Len(from), Len(s)), from, to)

\* str::contains(char).
contains(s, ch) == \E i \in DOMAIN s : s[i] = ch

(***************************************************************************)
(* SchemaRegistry                                                          *)
(***************************************************************************)
get_table(reg, table) ==
  IF table \in DOMAIN reg.tables THEN Some(reg.tables[table]) ELSE None

\* get_mock_data with unwrap_or(vec![HashMap::new()]): one record without
\* fields where there are no sample records.
GetMockDataOrBlank(reg, table) ==
  IF get_table(reg, table) = None THEN <<EmptyMap>>
  ELSE IF reg.tables[table].mock_data = None THEN <<EmptyMap>>
  ELSE reg.tables[table].mock_data.val

\* The sample records of a table, a Vec of maps field -> raw value.
get_mock_data(reg, table) ==
  IF get_table(reg, table) = None THEN <<>>
  ELSE IF reg.tables[table].mock_data = None THEN <<>>
  ELSE reg.tables[table].mock_data.val

\* The last record that matches.
RECURSIVE FindLast(_, _)
FindLast(records, id) ==
  IF records = <<>> THEN None
  ELSE LET last == records[Len(records)]
       IN IF "id" \in DOMAIN last /\ last["id"] = id
          THEN Some(last)
          ELSE FindLast(SubSeq(records, 1, Len(records) - 1), id)

\* Iterator::find over records: the first record that matches.
RECURSIVE Find(_, _)
Find(records, id) ==
  IF records = <<>> THEN None
  ELSE IF "id" \in DOMAIN Head(records) /\ Head(records)["id"] = id
       THEN Some(Head(records))
       ELSE Find(Tail(records), id)

get_mock_record(reg, table, id) == Find(get_mock_data(reg, table), id)

get_mock_records(reg, table, limit) ==
  LET data == get_mock_data(reg, table)
  IN IF limit = None THEN data
     ELSE SubSeq(data, 1, IF limit.val < Len(data) THEN limit.val ELSE Len(data))

\* set_theme storing the name without looking it up.
SetThemeUnchecked(reg, theme_name) == [reg EXCEPT !.current_theme = theme_name]

set_theme(reg, theme_name) ==
  IF theme_name \in DOMAIN reg.themes
  THEN [reg EXCEPT !.current_theme = theme_name]
  ELSE reg

\* keys().next() of a HashMap: the first key in iteration order.
FirstKey(m) == IF m.iter = <<>> THEN None ELSE Some(Head(m.iter))

\* FallBackToDefaults with the two fallbacks swapped: the first variant wins
\* over defaults.
FallBackFirstVariantFirst(schema, field) ==
  IF field \in DOMAIN schema.variants /\ schema.variants[field].iter # <<>>
  THEN Some(Head(schema.variants[field].iter))
  ELSE IF schema.defaults = None THEN None
       ELSE IF field \in DOMAIN schema.defaults.val
            THEN Some(schema.defaults.val[field])
            ELSE None

\* The tail of resolve_variant_for_field: defaults, then the first variant.
FallBackToDefaults(schema, field) ==
  LET fromDefaults ==
        IF schema.defaults = None THEN None
        ELSE IF field \in DOMAIN schema.defaults.val
             THEN Some(schema.defaults.val[field])
             ELSE None
  IN IF fromDefaults # None THEN fromDefaults
     ELSE IF field \in DOMAIN schema.variants
          THEN FirstKey(schema.variants[field])
          ELSE None

\* resolve_variant_for_field asking the parent before the context's own map.
RECURSIVE ResolveParentFirst(_, _, _, _)
ResolveParentFirst(schema, field, context, depth) ==
  IF depth > StackDepth THEN NoReturn
  ELSE IF context \in DOMAIN schema.contexts
       THEN LET ctx == schema.contexts[context]
                inherited == IF ctx.inherits # None
                             THEN ResolveParentFirst(schema, field, ctx.inherits.val,
                                                     depth + 1)
                             ELSE None
            IN IF inherited \notin {None, NoReturn} THEN inherited
               ELSE IF field \in DOMAIN ctx.fields THEN Some(ctx.fields[field])
               ELSE IF inherited = NoReturn THEN NoReturn
               ELSE FallBackToDefaults(schema, field)
       ELSE FallBackToDefaults(schema, field)

\* resolve_variant_for_field looking at the parent only, not at its ancestors.
ResolveOneLevel(schema, field, context, depth) ==
  IF context \in DOMAIN schema.contexts
  THEN LET ctx == schema.contexts[context]
       IN IF field \in DOMAIN ctx.fields THEN Some(ctx.fields[field])
          ELSE IF /\ ctx.inherits # None
                  /\ ctx.inherits.val \in DOMAIN schema.contexts
                  /\ field \in DOMAIN schema.contexts[ctx.inherits.val].fields
               THEN Some(schema.contexts[ctx.inherits.val].fields[field])
               ELSE FallBackToDefaults(schema, field)
  ELSE FallBackToDefaults(schema, field)

\* depth is the number of frames of this function already on the stack.
RECURSIVE resolve_variant_for_field(_, _, _, _)
resolve_variant_for_field(schema, field, context, depth) ==
  IF depth > StackDepth THEN NoReturn
  ELSE IF context \in DOMAIN schema.contexts
       THEN LET ctx == schema.contexts[context]
            IN IF field \in DOMAIN ctx.fields
               THEN Some(ctx.fields[field])
               ELSE IF ctx.inherits # None
                    THEN resolve_variant_for_field(schema, field, ctx.inherits.val,
                                                   depth + 1)
                    ELSE FallBackToDefaults(schema, field)
       ELSE FallBackToDefaults(schema, field)

\* get_theme_css falling back, for an active theme that is not loaded, to a
\* loaded theme that has CSS for the tag.
GetThemeCssOfAnyTheme(reg, tag) ==
  IF reg.current_theme \in DOMAIN reg.themes
  THEN IF tag \in DOMAIN reg.themes[reg.current_theme]
       THEN reg.themes[reg.current_theme][tag]
       ELSE <<>>
  ELSE IF \E t \in DOMAIN reg.themes : tag \in DOMAIN reg.themes[t]
       THEN reg.themes[CHOOSE t \in DOMAIN reg.themes : tag \in DOMAIN reg.themes[t]][tag]
       ELSE <<>>

get_theme_css(reg, tag) ==
  IF reg.current_theme \in DOMAIN reg.themes
  THEN IF tag \in DOMAIN reg.themes[reg.current_theme]
       THEN reg.themes[reg.current_theme][tag]
       ELSE <<>>
  ELSE <<>>

\* build_css_classes joining theme and extend with a space also when the theme
\* has no CSS for the tag.
BuildCssAlwaysJoins(theme_css, variant) ==
  IF variant.override_class # None /\ variant.extend = None
  THEN variant.override_class.val
  ELSE IF variant.override_class = None /\ variant.extend # None
       THEN theme_css \o <<" ">> \o variant.extend.val
       ELSE IF variant.override_class # None /\ variant.extend # None
            THEN variant.override_class.val \o <<" ">> \o variant.extend.val
            ELSE theme_css

build_css_classes(theme_css, variant) ==
  IF variant.override_class # None /\ variant.extend = None
  THEN variant.override_class.val
  ELSE IF variant.override_class = None /\ variant.extend # None
       THEN IF theme_css = <<>>
            THEN variant.extend.val
            ELSE theme_css \o <<" ">> \o variant.extend.val
       ELSE IF variant.override_class # None /\ variant.extend # None
            THEN variant.override_class.val \o <<" ">> \o variant.extend.val
            ELSE theme_css

\* iter is the iteration order of the collected HashMap, any order of its
\* keys; keys of iter that the variant does not have are skipped.
build_attributes(variant, value, field, iter) ==
  IF variant.attrs = None
  THEN [map |-> EmptyMap, iter |-> <<>>]
  ELSE [map |-> [key \in DOMAIN variant.attrs.val |->
                   Replace(Replace(variant.attrs.val[key], ValuePlaceholder, value),
                           FieldPlaceholder, Chars[field])],
        iter |-> SelectSeq(iter, LAMBDA key : key \in DOMAIN variant.attrs.val)]

\* The self-closing tags without hr.
SelfClosingWithoutHr == {"img", "input", "br"}

SelfClosing == {"img", "input", "br", "hr"}

RECURSIVE PushAttributes(_, _)
PushAttributes(attrs, keys) ==
  IF keys = <<>> THEN <<>>
  ELSE (IF Head(keys) # "class"
        THEN <<" ">> \o Chars[Head(keys)] \o <<"=", "\"">>
             \o attrs.map[Head(keys)] \o <<"\"">>
        ELSE <<>>)
       \o PushAttributes(attrs, Tail(keys))

\* OpenTag pushing the class attribute after the attributes of the variant.
OpenTagClassLast(tag, css_classes, attrs) ==
  <<"<">> \o Chars[tag]
  \o PushAttributes(attrs, attrs.iter)
  \o (IF css_classes # <<>>
      THEN <<" ", "c", "l", "a", "s", "s", "=", "\"">> \o css_classes \o <<"\"">>
      ELSE <<>>)

OpenTag(tag, css_classes, attrs) ==
  <<"<">> \o Chars[tag]
  \o (IF css_classes # <<>>
      THEN <<" ", "c", "l", "a", "s", "s", "=", "\"">> \o css_classes \o <<"\"">>
      ELSE <<>>)
  \o PushAttributes(attrs, attrs.iter)

generate_html(tag, css_classes, attrs, value) ==
  IF tag \in SelfClosing
  THEN OpenTag(tag, css_classes, attrs) \o <<" ", "/", ">">>
  ELSE OpenTag(tag, css_classes, attrs) \o <<">">> \o value
       \o <<"<", "/">> \o Chars[tag] \o <<">">>

render_field(reg, table, field, context, value, iter) ==
  IF get_table(reg, table) = None THEN None
  ELSE LET schema == reg.tables[table]
           variant_name == resolve_variant_for_field(schema, field, context, 0)
       IN IF variant_name = NoReturn THEN NoReturn
          ELSE IF variant_name = None THEN None
          ELSE IF field \notin DOMAIN schema.variants THEN None
          ELSE IF variant_name.val \notin DOMAIN schema.variants[field].map THEN None
          ELSE LET variant == schema.variants[field].map[variant_name.val]
                   base_css == get_theme_css(reg, variant.base)
                   css_classes == build_css_classes(base_css, variant)
                   attrs == build_attributes(variant, value, field, iter)
               IN Some(generate_html(variant.base, css_classes, attrs, value))

(***************************************************************************)
(* Renderer                                                                *)
(***************************************************************************)
\* The HashMap a call returns.
HashMapOf(m) == [kind |-> "HashMap", map |-> m]

\* render_record keeping every key of the record, with empty HTML for a field
\* that does not render.
RenderRecordKeepsAll(reg, table, context, data, iters) ==
  LET html(f) == render_field(reg, table, f, context, data[f], iters[f])
  IN IF \E f \in DOMAIN data : html(f) = NoReturn
     THEN NoReturn
     ELSE HashMapOf([f \in DOMAIN data |->
                       IF html(f) = None THEN <<>> ELSE html(f).val])

\* iters[f] is the iteration order of the attribute map built for field f.
render_record(reg, table, context, data, iters) ==
  LET html(f) == render_field(reg, table, f, context, data[f], iters[f])
  IN IF \E f \in DOMAIN data : html(f) = NoReturn
     THEN NoReturn
     ELSE HashMapOf([f \in {k \in DOMAIN data : html(k) # None} |-> html(f).val])

\* Renderer::render_component.  order is the iteration order of data, any
\* order of its keys; the result is a String, there is no error to return.
RECURSIVE ReplaceRendered(_, _, _, _, _, _, _)
ReplaceRendered(result, reg, table, context, data, iters, order) ==
  IF order = <<>> THEN [kind |-> "String", val |-> result]
  ELSE LET field == Head(order)
           placeholder == <<"{">> \o Chars[field] \o <<"}">>
           rendered_field == render_field(reg, table, field, context, data[field],
                                          iters[field])
       IN IF rendered_field = NoReturn THEN NoReturn
          ELSE ReplaceRendered(IF rendered_field # None
                               THEN Replace(result, placeholder, rendered_field.val)
                               ELSE result,
                               reg, table, context, data, iters, Tail(order))

Renderer_render_component(reg, template, table, context, data, iters, order) ==
  ReplaceRendered(template, reg, table, context, data, iters,
                  SelectSeq(order, LAMBDA f : f \in DOMAIN data))

\* iter is the iteration order of schema.contexts, any order of its keys.
list_contexts(reg, table, iter) ==
  IF get_table(reg, table) # None
  THEN SelectSeq(iter, LAMBDA c : c \in DOMAIN reg.tables[table].contexts)
  ELSE <<>>

list_field_variants(reg, table, field) ==
  IF get_table(reg, table) # None /\ field \in DOMAIN reg.tables[table].variants
  THEN reg.tables[table].variants[field].iter
  ELSE <<>>

(***************************************************************************)
(* ComponentRegistry                                                       *)
(***************************************************************************)
\* The position of the first } of chars, 0 if there is none.
RECURSIVE Closing(_, _)
Closing(chars, i) ==
  IF i > Len(chars) THEN 0
  ELSE IF chars[i] = "}" THEN i
  ELSE Closing(chars, i + 1)

\* The scan of extract_field_placeholders: after a { the characters up to
\* the next } or, without one, up to the end of the template are a field,
\* pushed unless empty.
RECURSIVE Scan(_, _)
Scan(chars, fields) ==
  IF chars = <<>> THEN fields
  ELSE IF Head(chars) = "{"
       THEN LET rest == Tail(chars)
                close == Closing(rest, 1)
                field == IF close = 0 THEN rest ELSE SubSeq(rest, 1, close - 1)
                after == IF close = 0 THEN <<>> ELSE SubSeq(rest, close + 1, Len(rest))
            IN Scan(after, IF field # <<>> THEN Append(fields, field) ELSE fields)
       ELSE Scan(Tail(chars), fields)

\* Vec::sort.
RECURSIVE Insert(_, _)
Insert(sorted, field) ==
  IF sorted = <<>> THEN <<field>>
  ELSE IF StrLess(field, Head(sorted)) THEN <<field>> \o sorted
  ELSE <<Head(sorted)>> \o Insert(Tail(sorted), field)

RECURSIVE Sort(_)
Sort(fields) ==
  IF fields = <<>> THEN <<>> ELSE Insert(Sort(Tail(fields)), Head(fields))

\* Vec::dedup: consecutive equal elements collapse into the first.
RECURSIVE Dedup(_)
Dedup(fields) ==
  IF Len(fields) < 2 THEN fields
  ELSE IF fields[1] = fields[2] THEN Dedup(Tail(fields))
  ELSE <<Head(fields)>> \o Dedup(Tail(fields))

extract_field_placeholders(template) == Dedup(Sort(Scan(template, <<>>)))

ComponentTemplate(name, table, template, required_fields) ==
  [name |-> name, table |-> table, template |-> template,
   required_fields |-> required_fields]

\* component_definitions is the array of <<name, table, template>>.
RECURSIVE discover_components(_, _)
discover_components(comps, component_definitions) ==
  IF component_definitions = <<>> THEN comps
  ELSE LET d == Head(component_definitions)
       IN discover_components(
            (d[1] :> ComponentTemplate(d[1], d[2], d[3], extract_field_placeholders(d[3])))
              @@ comps,
            Tail(component_definitions))

ComponentNotFound(name) == <<"ComponentNotFound", name>>

RecordNotFound(id) == <<"RecordNotFound", id>>

UnresolvedPlaceholders == <<"UnresolvedPlaceholders">>

\* The loop of substitute_template over rendered_fields in the order keys.
RECURSIVE ReplaceFields(_, _, _)
ReplaceFields(result, rendered_fields, keys) ==
  IF keys = <<>> THEN result
  ELSE ReplaceFields(Replace(result, <<"{">> \o Chars[Head(keys)] \o <<"}">>,
                             rendered_fields[Head(keys)]),
                     rendered_fields, Tail(keys))

\* substitute_template without the check for unresolved placeholders.
SubstituteUnchecked(template, rendered_fields, order) ==
  Ok(ReplaceFields(template, rendered_fields,
                   SelectSeq(order, LAMBDA f : f \in DOMAIN rendered_fields)))

\* order is the iteration order of rendered_fields, any order of its keys.
substitute_template(template, rendered_fields, order) ==
  LET result == ReplaceFields(template, rendered_fields,
                              SelectSeq(order, LAMBDA f : f \in DOMAIN rendered_fields))
  IN IF contains(result, "{") /\ contains(result, "}")
     THEN Err(UnresolvedPlaceholders)
     ELSE Ok(result)

\* The required fields the record has, by name.
FieldsOf(component, record_data) ==
  {f \in DOMAIN record_data :
     \E i \in DOMAIN component.required_fields : component.required_fields[i] = Chars[f]}

RenderParams(context, theme, platform, format, lang) ==
  [context |-> context, theme |-> theme, platform |-> platform, format |-> format,
   lang |-> lang]

\* The schema registry with the theme of the parameters made active.
SchemaRegistryOfTheme(reg, params) ==
  IF params.theme = None THEN reg ELSE SetThemeUnchecked(reg, params.theme.val)

\* self.schema_registry, the registry render_component looks records up in
\* and renders with: the shared one, whatever the parameters are.
schema_registry(reg, params) == reg

\* ComponentRegistry::render_component; params is RenderParams.
render_component(comps, global, component_name, record_id, params, iters, order) ==
  IF component_name \notin DOMAIN comps THEN Err(ComponentNotFound(component_name))
  ELSE LET component == comps[component_name]
           reg == schema_registry(global, params)
           found == get_mock_record(reg, component.table, record_id)
       IN IF found = None THEN Err(RecordNotFound(record_id))
          ELSE LET record_data == found.val
                   context == IF params.context = None THEN "card" ELSE params.context.val
                   html(f) == render_field(reg, component.table, f, context,
                                           record_data[f], iters[f])
                   present == FieldsOf(component, record_data)
               IN IF \E f \in present : html(f) = NoReturn
                  THEN NoReturn
                  ELSE substitute_template(
                         component.template,
                         [f \in {k \in present : html(k) # None} |-> html(f).val],
                         order)

(***************************************************************************)
(* Configurations: the users table as toml::from_str may deliver it        *)
(***************************************************************************)
ContextNames == {"card", "list", "table"}

\* A context name that no schema defines.
GhostContext == "nonexistent_context"

Variant(base, override_class, extend, attrs) ==
  [base |-> base, override_class |-> override_class, extend |-> extend,
   attrs |-> attrs]

NameVariants ==
  [ h1 |-> Variant("h1", None, None, None),
    h2 |-> Variant("h2", None, Some(FontBold),
                   Some([id |-> FieldPlaceholder, title |-> ValuePlaceholder])) ]

Range(s) == {s[i] : i \in DOMAIN s}

\* What a table document may declare for field name: nothing, or its variants
\* in the order of the document (declared[field]).
Declarations == {EmptyMap} \cup {"name" :> d : d \in {<<>>, <<"h1">>, <<"h1", "h2">>}}

\* The variants map that parsing a declaration delivers: for each field a
\* HashMap of the declared variants, iterated in any order.
LoadedVariants(decl) ==
  {vs \in [DOMAIN decl -> [map : {[v \in {"h1", "h2"} \cap Range(decl[f]) |->
                                      NameVariants[v]] : f \in DOMAIN decl},
                           iter : UNION {Orderings(Range(decl[f])) : f \in DOMAIN decl}]] :
     \A f \in DOMAIN decl : /\ DOMAIN vs[f].map = Range(decl[f])
                            /\ Range(vs[f].iter) = Range(decl[f])}

\* defaults of a table: absent, empty, or a variant for field name.
DefaultsChoices == {None, Some(EmptyMap), Some("name" :> "h1")}

\* inherits of each context: absent, a context of the table (itself
\* included), or a name the table does not define.
ParentChoices ==
  [card : {None, Some("card"), Some("list")},
   list : {None, Some("card"), Some("table"), Some(GhostContext)},
   table : {None, Some("list")}]

\* The field map of each context: empty, or a variant for field name.
FieldMaps ==
  [card : {EmptyMap, "name" :> "h1"},
   list : {EmptyMap, "name" :> "h2"},
   table : {EmptyMap}]

Contexts ==
  {[c \in ContextNames |-> [inherits |-> p[c], fields |-> m[c]]] :
     p \in ParentChoices, m \in FieldMaps}

\* themes.toml as loaded: theme light with CSS for tag h2.
LoadedThemes == "light" :> ("h2" :> TextXl)

Registry(themes, tables, current_theme) ==
  [themes |-> themes, tables |-> tables, current_theme |-> current_theme]

\* impl Default for SchemaRegistry.
SchemaRegistry_default == Registry(EmptyMap, EmptyMap, "light")

\* The documents compiled into the binary: themes.toml as parsed (Ok or Err)
\* and the array table_schemas of <<table name, schema document as parsed>>.
Documents(themes, table_schemas) == [themes |-> themes, table_schemas |-> table_schemas]

TableDocument(table_name, content) == [table_name |-> table_name, content |-> content]

\* LoadTables ending at the first document that fails to parse.
RECURSIVE LoadTablesUntilFailure(_, _)
LoadTablesUntilFailure(table_schemas, tables) ==
  IF table_schemas = <<>> THEN tables
  ELSE LET doc == Head(table_schemas)
       IN IF doc.content.kind = "Ok"
          THEN LoadTablesUntilFailure(Tail(table_schemas),
                                      (doc.table_name :> doc.content.val) @@ tables)
          ELSE tables

\* The loop of load_all over table_schemas: a document that parses is
\* inserted, one that does not is logged and skipped.
RECURSIVE LoadTables(_, _)
LoadTables(table_schemas, tables) ==
  IF table_schemas = <<>> THEN tables
  ELSE LET doc == Head(table_schemas)
       IN LoadTables(Tail(table_schemas),
                     IF doc.content.kind = "Ok"
                     THEN (doc.table_name :> doc.content.val) @@ tables
                     ELSE tables)

load_all(docs) ==
  LET fresh == SchemaRegistry_default
      themes == IF docs.themes.kind = "Ok" THEN docs.themes.val ELSE fresh.themes
  IN Registry(themes, LoadTables(docs.table_schemas, fresh.tables), fresh.current_theme)

get_current_theme(reg) == reg.current_theme

\* with_registry_mut running the closure on the global registry itself.
WithSharedRegistry(global, docs, theme_name) ==
  LET shared == set_theme(global, theme_name)
  IN [global |-> shared, returned |-> get_current_theme(shared)]

\* with_registry_mut(|r| { r.set_theme(theme_name); r.get_current_theme() }):
\* the closure runs on a registry loaded for the call and dropped after it.
\* global is the registry of registry() after the call, returned what the
\* closure returns.
with_registry_mut(global, docs, theme_name) ==
  LET local == set_theme(load_all(docs), theme_name)
  IN [global |-> global, returned |-> get_current_theme(local)]

\* The documents of a registry with table users, themes.toml parsing.
Embedded(reg) ==
  Documents(Ok(reg.themes), <<TableDocument("users", Ok(reg.tables["users"]))>>)

(***************************************************************************)
(* Operations                                                              *)
(***************************************************************************)
\* The variants of all fields of all tables of the registry.
VariantsIn(reg) ==
  UNION {UNION {{reg.tables[t].variants[f].map[n] :
                   n \in DOMAIN reg.tables[t].variants[f].map} :
                  f \in DOMAIN reg.tables[t].variants} :
           t \in DOMAIN reg.tables}

\* The attribute names of the variants of the registry.
AttrKeys ==
  UNION {IF v.attrs = None THEN {} ELSE DOMAIN v.attrs.val : v \in VariantsIn(registry)}

\* The orders in which a HashMap built by build_attributes may iterate.
AttrIters == Orderings(AttrKeys)

AllContexts == ContextNames \cup {GhostContext}

Fields == {"name", "nonexistent"}

Jo == <<"J", "o">>

\* <<table, field, context, value>> of the render_field calls.
RenderFieldCalls ==
  ({"users"} \X Fields \X AllContexts \X {Jo})
  \cup {<<"unknown_table", "name", "card", Jo>>}

\* Records handed to render_record.
Records ==
  {EmptyMap, "name" :> Jo, "nonexistent" :> <<"x">>,
   ("name" :> Jo) @@ ("nonexistent" :> <<"x">>)}

\* <<table, context, data>> of the render_record calls.
RenderRecordCalls ==
  ({"users"} \X AllContexts \X Records)
  \cup {<<"unknown_table", "card", "name" :> Jo>>}

Init ==
  /\ \E decl \in Declarations, defaults \in DefaultsChoices, contexts \in Contexts :
       /\ declared = decl
       /\ \E variants \in LoadedVariants(decl) :
            registry = Registry(LoadedThemes,
                                "users" :> [variants |-> variants, defaults |-> defaults,
                                            contexts |-> contexts, mock_data |-> None],
                                "light")
  /\ documents = Embedded(registry)
  /\ components = NotDiscovered
  /\ op = "none"
  /\ args = <<>>
  /\ ret = None

ResolveVariantForField ==
  \E field \in Fields, context \in AllContexts :
    /\ op' = "resolve_variant_for_field"
    /\ args' = [field |-> field, context |-> context]
    /\ ret' \in Observed(resolve_variant_for_field(registry.tables["users"], field,
                                                   context, 0))
    /\ UNCHANGED <<documents, registry, declared, components>>

RenderField ==
  \E call \in RenderFieldCalls, iter \in AttrIters :
    /\ op' = "render_field"
    /\ args' = [table |-> call[1], field |-> call[2], context |-> call[3],
                value |-> call[4]]
    /\ ret' \in Observed(render_field(registry, call[1], call[2], call[3], call[4],
                                      iter))
    /\ UNCHANGED <<documents, registry, declared, components>>

RenderRecord ==
  \E call \in RenderRecordCalls :
    \E iters \in [DOMAIN call[3] -> AttrIters] :
      /\ op' = "render_record"
      /\ args' = [table |-> call[1], context |-> call[2], data |-> call[3]]
      /\ ret' \in Observed(render_record(registry, call[1], call[2], call[3], iters))
      /\ UNCHANGED <<documents, registry, declared, components>>

Next == ResolveVariantForField \/ RenderField \/ RenderRecord

Spec == Init /\ [][Next]_vars

(***************************************************************************)
(* HTML synthesis: a table with one context and one variant of field name, *)
(* the variant and the themes drawn from the styles below                  *)
(***************************************************************************)
Tags == {"h2", "span", "img", "input", "br", "hr"}

ClassChoices(css) == {None, Some(<<>>), Some(css)}

AttrChoices ==
  {None, Some(EmptyMap), Some("id" :> FieldPlaceholder),
   Some(("id" :> FieldPlaceholder) @@ ("title" :> ValuePlaceholder)),
   Some(("class" :> <<"x">>) @@ ("title" :> ValuePlaceholder))}

StyledVariants ==
  {Variant(base, override_class, extend, attrs) :
     base \in Tags, override_class \in ClassChoices(TextSm),
     extend \in ClassChoices(FontBold), attrs \in AttrChoices}

\* No theme document loaded, a light theme without tags, a light theme with
\* CSS for every tag, a theme document with a dark theme only.
ThemeChoices ==
  {EmptyMap, "light" :> EmptyMap, "light" :> [t \in Tags |-> TextXl],
   "dark" :> [t \in Tags |-> TextSm]}

\* Raw values: empty, plain text, and the literal text {field}.
StyledValues == {<<>>, JohnDoe, FieldPlaceholder}

StyledTable(variant) ==
  [variants |-> "name" :> [map |-> "styled" :> variant, iter |-> <<"styled">>],
   defaults |-> None,
   contexts |-> "card" :> [inherits |-> None, fields |-> "name" :> "styled"],
   mock_data |-> None]

InitHtml ==
  /\ \E variant \in StyledVariants, themes \in ThemeChoices :
       registry = Registry(themes, "users" :> StyledTable(variant), "light")
  /\ declared = "name" :> <<"styled">>
  /\ documents = Embedded(registry)
  /\ components = NotDiscovered
  /\ op = "none"
  /\ args = <<>>
  /\ ret = None

Styled == registry.tables["users"].variants["name"].map["styled"]

RenderStyledField ==
  \E value \in StyledValues, iter \in AttrIters :
    /\ op' = "render_field"
    /\ args' = [table |-> "users", field |-> "name", context |-> "card",
                value |-> value]
    /\ ret' \in Observed(render_field(registry, "users", "name", "card", value, iter))
    /\ UNCHANGED <<documents, registry, declared, components>>

BuildCssClasses ==
  \E theme_css \in {<<>>, TextXl} :
    /\ op' = "build_css_classes"
    /\ args' = [theme_css |-> theme_css, variant |-> Styled]
    /\ ret' = build_css_classes(theme_css, Styled)
    /\ UNCHANGED <<documents, registry, declared, components>>

GenerateHtml ==
  \E css_classes \in {<<>>, TextXl}, value \in StyledValues, iter \in AttrIters :
    LET attrs == build_attributes(Styled, value, "name", iter)
    IN /\ op' = "generate_html"
       /\ args' = [tag |-> Styled.base, css_classes |-> css_classes, attrs |-> attrs,
                   value |-> value]
       /\ ret' = generate_html(Styled.base, css_classes, attrs, value)
       /\ UNCHANGED <<documents, registry, declared, components>>

BuildAttributes ==
  \E value \in StyledValues, iter \in AttrIters :
    /\ op' = "build_attributes"
    /\ args' = [variant |-> Styled, value |-> value, field |-> "name"]
    /\ ret' = build_attributes(Styled, value, "name", iter)
    /\ UNCHANGED <<documents, registry, declared, components>>

NextHtml == RenderStyledField \/ BuildCssClasses \/ BuildAttributes \/ GenerateHtml

SpecHtml == InitHtml /\ [][NextHtml]_vars

(***************************************************************************)
(* Components: one component user_card of table users, its template drawn  *)
(* from the texts below; fields a and b, one sample record                 *)
(***************************************************************************)
\* Number of pieces a template is made of.
MaxTemplateLen == 4

\* The pieces of a template: the braces, the text a, and the placeholder {b}.
Pieces == {<<"{">>, <<"}">>, <<"a">>, <<"{", "b", "}">>}

RECURSIVE Flatten(_)
Flatten(pieces) == IF pieces = <<>> THEN <<>> ELSE Head(pieces) \o Flatten(Tail(pieces))

Templates ==
  UNION {{Flatten(t) : t \in [1..n -> Pieces]} : n \in 0..MaxTemplateLen}

\* The variant of the fields of a component table.
Plain(attrs) == Variant("span", None, None, attrs)

\* Table users with fields a and, if b_styled, b, each with one variant in
\* context card, and one sample record.
ComponentTable(b_styled, attrs, record) ==
  LET styled == IF b_styled THEN {"a", "b"} ELSE {"a"}
  IN [variants |-> [f \in styled |-> [map |-> "v" :> Plain(attrs), iter |-> <<"v">>]],
      defaults |-> None,
      contexts |-> "card" :> [inherits |-> None, fields |-> [f \in styled |-> "v"]],
      mock_data |-> Some(<<record>>)]

One == <<"1">>

\* <<b_styled, attrs, record>>: both fields render; b has no variant; b is
\* missing from the record; the raw value of a is {b}; it is }; the record
\* has no field but id.
ComponentCases ==
  {<<TRUE, None, ("id" :> One) @@ ("a" :> <<"x">>) @@ ("b" :> <<"y">>)>>,
   <<FALSE, None, ("id" :> One) @@ ("a" :> <<"x">>) @@ ("b" :> <<"y">>)>>,
   <<TRUE, None, ("id" :> One) @@ ("a" :> <<"x">>)>>,
   <<TRUE, Some("title" :> ValuePlaceholder),
     ("id" :> One) @@ ("a" :> <<"{", "b", "}">>) @@ ("b" :> <<"y">>)>>,
   <<TRUE, None, ("id" :> One) @@ ("a" :> <<"}">>) @@ ("b" :> <<"y">>)>>,
   <<TRUE, None, "id" :> One>>}

InitComponent ==
  /\ \E case \in ComponentCases :
       documents = Documents(Ok(LoadedThemes),
                             <<TableDocument("users",
                                             Ok(ComponentTable(case[1], case[2], case[3])))>>)
  /\ registry = load_all(documents)
  /\ declared = [f \in DOMAIN registry.tables["users"].variants |-> <<"v">>]
  /\ \E template \in Templates :
       components = discover_components(EmptyMap, <<<<"user_card", "users", template>>>>)
  /\ op = "none"
  /\ args = <<>>
  /\ ret = None

UserCard == components["user_card"]

\* The sample record of table users.
Sample == registry.tables["users"].mock_data.val[1]

\* The orders in which a HashMap with the keys fields may iterate.
FieldIters(fields) == Orderings(fields)

RenderComponent ==
  \E component_name \in {"user_card", "user_list_item"}, record_id \in {One, <<"9">>},
     context \in {None, Some("card")}, iter \in AttrIters, order \in FieldIters({"a", "b"}) :
    /\ op' = "ComponentRegistry::render_component"
    /\ args' = [component_name |-> component_name, record_id |-> record_id,
                context |-> context]
    /\ ret' \in Observed(render_component(components, registry, component_name, record_id,
                                          RenderParams(context, None, None, None, None),
                                          [f \in {"id", "a", "b"} |-> iter], order))
    /\ UNCHANGED <<documents, registry, declared, components>>

SubstituteTemplate ==
  \E rendered_fields \in {EmptyMap, "a" :> <<"x">>, ("a" :> <<"x">>) @@ ("b" :> <<"y">>),
                           ("a" :> <<"{", "b", "}">>) @@ ("b" :> <<"y">>)},
     order \in FieldIters({"a", "b"}) :
    /\ op' = "substitute_template"
    /\ args' = [template |-> UserCard.template, rendered_fields |-> rendered_fields]
    /\ ret' = substitute_template(UserCard.template, rendered_fields, order)
    /\ UNCHANGED <<documents, registry, declared, components>>

RendererRenderComponent ==
  \E data \in {EmptyMap, Sample}, iter \in AttrIters :
   \E order \in FieldIters(DOMAIN data) :
    /\ op' = "Renderer::render_component"
    /\ args' = [template |-> UserCard.template, table |-> "users", context |-> "card",
                data |-> data]
    /\ ret' \in Observed(Renderer_render_component(registry, UserCard.template, "users",
                                                   "card", data,
                                                   [f \in {"id", "a", "b"} |-> iter], order))
    /\ UNCHANGED <<documents, registry, declared, components>>

NextComponent == RenderComponent \/ SubstituteTemplate \/ RendererRenderComponent

SpecComponent == InitComponent /\ [][NextComponent]_vars

(***************************************************************************)
(* The web endpoint GET /api/:component: themes light and dark with CSS    *)
(* for span, the component cases without braces in the raw values          *)
(***************************************************************************)
WebThemes == ("light" :> ("span" :> TextXl)) @@ ("dark" :> ("span" :> TextSm))

WebCases ==
  {case \in ComponentCases :
     \A f \in DOMAIN case[3] : ~contains(case[3][f], "{") /\ ~contains(case[3][f], "}")}

\* a, {a}, {b}, {a}{b}.
WebTemplates ==
  {<<"a">>, <<"{", "a", "}">>, <<"{", "b", "}">>, <<"{", "a", "}", "{", "b", "}">>}

\* The query parameters; an absent one is None.
ComponentParams(id, context, platform, format, theme, lang) ==
  [id |-> id, context |-> context, platform |-> platform, format |-> format,
   theme |-> theme, lang |-> lang]

Optional(values) == {None} \cup {Some(v) : v \in values}

\* <<platform, format, lang>> of a request.
OtherParams ==
  {<<None, None, None>>, <<Some("mobile"), None, Some("fr")>>,
   <<None, Some("json"), None>>, <<Some("mobile"), Some("json"), Some("fr")>>,
   <<None, Some("text"), Some("fr")>>, <<Some("mobile"), Some("xml"), None>>}

Response(status, body) == [status |-> status, body |-> body]

\* render_component_api: the response for the result of render_component.
render_component_api(comps, reg, component_name, params, iters, order) ==
  LET rendered == render_component(comps, reg, component_name, params.id,
                                   RenderParams(params.context, params.theme,
                                                params.platform, params.format,
                                                params.lang),
                                   iters, order)
  IN IF rendered = NoReturn THEN NoReturn
     ELSE IF rendered.kind = "Ok"
     THEN LET format == IF params.format = None THEN "html" ELSE params.format.val
          IN IF format = "html"
             THEN Response(200, [kind |-> "Html", html |-> rendered.val])
             ELSE IF format = "text"
             THEN Response(200, [kind |-> "Text", html |-> rendered.val])
             ELSE IF format = "json"
             THEN Response(200,
                           [kind |-> "Json", component |-> component_name,
                            id |-> params.id, html |-> rendered.val,
                            context |-> IF params.context = None THEN "card"
                                        ELSE params.context.val,
                            theme |-> IF params.theme = None THEN "light"
                                      ELSE params.theme.val])
             ELSE Response(400, [kind |-> "Text", text |-> "Unsupported format"])
     ELSE IF rendered.err[1] \in {"ComponentNotFound", "RecordNotFound"}
     THEN Response(404, [kind |-> "Text", text |-> rendered.err])
     ELSE Response(500, [kind |-> "Text", text |-> rendered.err])

InitWeb ==
  /\ \E case \in WebCases :
       documents = Documents(Ok(WebThemes),
                             <<TableDocument("users",
                                             Ok(ComponentTable(case[1], case[2], case[3])))>>)
  /\ registry = load_all(documents)
  /\ declared = [f \in DOMAIN registry.tables["users"].variants |-> <<"v">>]
  /\ \E template \in WebTemplates :
       components = discover_components(EmptyMap, <<<<"user_card", "users", template>>>>)
  /\ op = "none"
  /\ args = <<>>
  /\ ret = None

\* ComponentRegistry::render_component called with all of RenderParams.
RenderComponentWithParams ==
  \E component_name \in {"user_card", "user_list_item"}, record_id \in {One, <<"9">>},
     context \in Optional({"card"}), theme \in Optional({"dark"}),
     other \in OtherParams, iter \in AttrIters, order \in FieldIters({"a", "b"}) :
    LET params == RenderParams(context, theme, other[1], other[2], other[3])
    IN /\ op' = "ComponentRegistry::render_component"
       /\ args' = [component_name |-> component_name, record_id |-> record_id,
                   params |-> params]
       /\ ret' \in Observed(render_component(components, registry, component_name,
                                             record_id, params,
                                             [f \in {"id", "a", "b"} |-> iter], order))
       /\ UNCHANGED <<documents, registry, declared, components>>

RenderComponentApi ==
  \E component_name \in {"user_card", "user_list_item"}, id \in {One, <<"9">>},
     context \in Optional({"card"}), theme \in Optional({"dark"}),
     other \in OtherParams, iter \in AttrIters, order \in FieldIters({"a", "b"}) :
    LET params == ComponentParams(id, context, other[1], other[2], theme, other[3])
    IN /\ op' = "render_component_api"
       /\ args' = [component_name |-> component_name, params |-> params]
       /\ ret' \in Observed(render_component_api(components, registry, component_name,
                                                 params,
                                                 [f \in {"id", "a", "b"} |-> iter], order))
       /\ UNCHANGED <<documents, registry, declared, components>>

NextWeb == RenderComponentWithParams \/ RenderComponentApi

SpecWeb == InitWeb /\ [][NextWeb]_vars

(***************************************************************************)
(* Loading and lookups: table_schemas lists some of three tables, each     *)
(* document parsing or not; themes.toml parsing or not                     *)
(***************************************************************************)
TableNames == {"users", "products", "orders"}

\* A table name that table_schemas does not list.
GhostTable == "ghosts"

\* Sample records: one without id, two with id 1, one with id 2.
MockRecords ==
  <<"name" :> <<"z">>,
    ("id" :> One) @@ ("name" :> Jo),
    ("id" :> One) @@ ("name" :> <<"x">>),
    ("id" :> <<"2">>) @@ ("name" :> <<"y">>)>>

MockChoices == {None, Some(<<>>), Some(MockRecords)}

\* A schema with field name as h2 in context card, list inheriting card.
LoadedTable(mock_data) ==
  [variants |-> "name" :> [map |-> "styled" :> Variant("h2", None, None, None),
                           iter |-> <<"styled">>],
   defaults |-> None,
   contexts |-> ("card" :> [inherits |-> None, fields |-> "name" :> "styled"])
                @@ ("list" :> [inherits |-> Some("card"), fields |-> EmptyMap]),
   mock_data |-> mock_data]

\* What toml::from_str makes of a schema document.
Parsed == {Err("parse")} \cup {Ok(LoadedTable(m)) : m \in MockChoices}

\* The arrays table_schemas: distinct tables in any order.
TableSchemas ==
  UNION {{[i \in 1..n |-> TableDocument(names[i], content[i])] :
            names \in {s \in [1..n -> TableNames] :
                         \A i, j \in 1..n : s[i] = s[j] => i = j},
            content \in [1..n -> Parsed]} :
           n \in 0..Cardinality(TableNames)}

\* themes.toml: not parsing, theme light, themes light and dark.
ThemeDocuments ==
  {Err("parse"), Ok("light" :> ("h2" :> TextXl)),
   Ok(("light" :> ("h2" :> TextXl)) @@ ("dark" :> ("h2" :> TextSm)))}

ThemeNames == {"light", "dark", "neon"}

InitRegistry ==
  /\ documents \in {Documents(themes, table_schemas) :
                      themes \in ThemeDocuments, table_schemas \in TableSchemas}
  /\ registry = load_all(documents)
  /\ declared = "name" :> <<"styled">>
  /\ components = NotDiscovered
  /\ op = "none"
  /\ args = <<>>
  /\ ret = None

\* The Vec a call returns.
VecOf(v) == [kind |-> "Vec", val |-> v]

\* render_field on registry().
RenderGlobalField ==
  \E table \in TableNames \cup {GhostTable} :
    /\ op' = "render_field"
    /\ args' = [table |-> table, field |-> "name", context |-> "card", value |-> Jo]
    /\ ret' \in Observed(render_field(registry, table, "name", "card", Jo, <<>>))
    /\ UNCHANGED <<documents, declared, components>>
    /\ UNCHANGED registry

WithRegistryMut ==
  \E theme_name \in ThemeNames :
    /\ op' = "with_registry_mut"
    /\ args' = [theme_name |-> theme_name]
    /\ ret' = [kind |-> "Theme", val |-> with_registry_mut(registry, documents, theme_name).returned]
    /\ registry' = with_registry_mut(registry, documents, theme_name).global
    /\ UNCHANGED <<documents, declared, components>>

ListTables ==
  \E iter \in Orderings(DOMAIN registry.tables) :
    /\ op' = "list_tables"
    /\ args' = <<>>
    /\ ret' = VecOf(iter)
    /\ UNCHANGED <<documents, registry, declared, components>>

ListContexts ==
  \E table \in TableNames \cup {GhostTable}, iter \in Orderings({"card", "list"}) :
    /\ op' = "list_contexts"
    /\ args' = [table |-> table]
    /\ ret' = VecOf(list_contexts(registry, table, iter))
    /\ UNCHANGED <<documents, registry, declared, components>>

ListFieldVariants ==
  \E table \in TableNames \cup {GhostTable}, field \in Fields :
    /\ op' = "list_field_variants"
    /\ args' = [table |-> table, field |-> field]
    /\ ret' = VecOf(list_field_variants(registry, table, field))
    /\ UNCHANGED <<documents, registry, declared, components>>

GetMockData ==
  \E table \in TableNames \cup {GhostTable} :
    /\ op' = "get_mock_data"
    /\ args' = [table |-> table]
    /\ ret' = VecOf(get_mock_data(registry, table))
    /\ UNCHANGED <<documents, registry, declared, components>>

GetMockRecord ==
  \E table \in TableNames \cup {GhostTable}, id \in {One, <<"2">>, <<"9">>} :
    /\ op' = "get_mock_record"
    /\ args' = [table |-> table, id |-> id]
    /\ ret' = get_mock_record(registry, table, id)
    /\ UNCHANGED <<documents, registry, declared, components>>

GetMockRecords ==
  \E table \in TableNames \cup {GhostTable}, limit \in {None, Some(0), Some(2), Some(5)} :
    /\ op' = "get_mock_records"
    /\ args' = [table |-> table, limit |-> limit]
    /\ ret' = VecOf(get_mock_records(registry, table, limit))
    /\ UNCHANGED <<documents, registry, declared, components>>

NextRegistry ==
  \/ RenderGlobalField
  \/ WithRegistryMut
  \/ ListTables
  \/ ListContexts
  \/ ListFieldVariants
  \/ GetMockData
  \/ GetMockRecord
  \/ GetMockRecords

SpecRegistry == InitRegistry /\ [][NextRegistry]_vars

(***************************************************************************)
(* Theme switching on an owned registry: registry is a value made by       *)
(* SchemaRegistry::new() or SchemaRegistry::load_all() that its owner      *)
(* calls set_theme on                                                      *)
(***************************************************************************)
\* themes.toml: not parsing, light, light and dark, dark only.
OwnedThemeDocuments == ThemeDocuments \cup {Ok("dark" :> ("h2" :> TextSm))}

\* table_schemas with at most one table.
OwnedTableSchemas == {t \in TableSchemas : Len(t) <= 1}

\* Theme names: loaded or not, and the empty name.
OwnedThemeNames == ThemeNames \cup {""}

InitTheme ==
  /\ documents \in {Documents(themes, table_schemas) :
                      themes \in OwnedThemeDocuments, table_schemas \in OwnedTableSchemas}
  /\ registry \in {SchemaRegistry_default, load_all(documents)}
  /\ declared = "name" :> <<"styled">>
  /\ components = NotDiscovered
  /\ op = "none"
  /\ args = <<>>
  /\ ret = None

SetTheme ==
  \E theme_name \in OwnedThemeNames :
    /\ op' = "set_theme"
    /\ args' = [theme_name |-> theme_name]
    /\ ret' = [kind |-> "Unit"]
    /\ registry' = set_theme(registry, theme_name)
    /\ UNCHANGED <<documents, declared, components>>

GetCurrentTheme ==
  /\ op' = "get_current_theme"
  /\ args' = <<>>
  /\ ret' = [kind |-> "Theme", val |-> get_current_theme(registry)]
  /\ UNCHANGED <<documents, registry, declared, components>>

NextTheme == SetTheme \/ GetCurrentTheme

SpecTheme == InitTheme /\ [][NextTheme]_vars

(***************************************************************************)
(* Properties of variant resolution                                        *)
(***************************************************************************)
Users == registry.tables["users"]

\* The contexts the inheritance walk from context visits, in order; the walk
\* ends at a name the table does not define, at a context without parent,
\* or when it would visit a context again.
RECURSIVE Walk(_, _, _)
Walk(schema, context, seen) ==
  IF context \notin DOMAIN schema.contexts \/ context \in seen THEN <<>>
  ELSE <<context>> \o
       (IF schema.contexts[context].inherits = None THEN <<>>
        ELSE Walk(schema, schema.contexts[context].inherits.val, seen \cup {context}))

\* The walk from context comes back to a context it has visited.
RECURSIVE Cyclic(_, _, _)
Cyclic(schema, context, seen) ==
  /\ context \in DOMAIN schema.contexts
  /\ \/ context \in seen
     \/ /\ schema.contexts[context].inherits # None
        /\ Cyclic(schema, schema.contexts[context].inherits.val, seen \cup {context})

Maps(schema, context, field) == field \in DOMAIN schema.contexts[context].fields

\* No context the walk visits maps the field.
Unmapped(schema, context, field) ==
  \A i \in DOMAIN Walk(schema, context, {}) :
    ~Maps(schema, Walk(schema, context, {})[i], field)

Resolved == op = "resolve_variant_for_field"

\* C1 (override wins): a context of the table that maps the field itself
\* resolves to that variant, whatever its ancestors, the defaults and the
\* variants of the field hold.
C1_OverrideWins ==
  (/\ Resolved
   /\ args.context \in DOMAIN Users.contexts
   /\ Maps(Users, args.context, args.field))
  => ret = Some(Users.contexts[args.context].fields[args.field])

\* list maps name itself while its parent card and the defaults map it to
\* another variant.
C1_Witness ==
  /\ Resolved
  /\ args = [field |-> "name", context |-> "list"]
  /\ Users.contexts["list"] = [inherits |-> Some("card"), fields |-> "name" :> "h2"]
  /\ Users.contexts["card"].fields = "name" :> "h1"
  /\ Users.defaults = Some("name" :> "h1")
  /\ ret = Some("h2")

\* C2 (inheritance fallback): on an acyclic chain of contexts the field
\* resolves to the variant of the nearest context of the chain that maps it.
C2_NearestAncestorWins ==
  (Resolved /\ ~Cyclic(Users, args.context, {}))
  => LET chain == Walk(Users, args.context, {})
     IN \A i \in DOMAIN chain :
          (/\ Maps(Users, chain[i], args.field)
           /\ \A j \in 1..(i - 1) : ~Maps(Users, chain[j], args.field))
          => ret = Some(Users.contexts[chain[i]].fields[args.field])

\* table -> list -> card, only card maps name: the grandparent's variant.
C2_Witness ==
  /\ Resolved
  /\ args = [field |-> "name", context |-> "table"]
  /\ Walk(Users, "table", {}) = <<"table", "list", "card">>
  /\ ~Cyclic(Users, "table", {})
  /\ ~Maps(Users, "list", "name")
  /\ Maps(Users, "card", "name")
  /\ Users.defaults = None
  /\ ret = Some("h1")

\* C3 (termination): resolution returns for every schema, and render_field
\* of a field that no context of an inheritance cycle maps returns absent.
C3_CycleFailsClosed ==
  /\ op # "none" => ret.kind \notin {"StackOverflow", "EndlessLoop"}
  /\ (/\ op = "render_field"
      /\ args.table = "users"
      /\ Cyclic(Users, args.context, {})
      /\ Unmapped(Users, args.context, args.field))
     => ret = None

C5_FirstDeclaredVariant ==
  (/\ Resolved
   /\ ~Cyclic(Users, args.context, {})
   /\ Unmapped(Users, args.context, args.field)
   /\ Users.defaults = None \/ args.field \notin DOMAIN Users.defaults.val
   /\ args.field \in DOMAIN declared
   /\ declared[args.field] # <<>>)
  => ret = Some(Head(declared[args.field]))

\* C6 (unknown context): render_field with a context name the table does not
\* define returns absent.
C6_UnknownContextAbsent ==
  (/\ op = "render_field"
   /\ args.table = "users"
   /\ args.context \notin DOMAIN Users.contexts)
  => ret = None

\* C7 (absence): render_field returns absent for an unknown table, a field
\* without variants and a resolved variant name that the field does not
\* define, returns HTML in every other case, and never ends in another way.
C7_AbsentOrHtml ==
  op = "render_field"
  => /\ ret.kind \in {"None", "Some"}
     /\ ret = None <=>
          \/ args.table \notin DOMAIN registry.tables
          \/ args.field \notin DOMAIN registry.tables[args.table].variants
          \/ registry.tables[args.table].variants[args.field].iter = <<>>
          \/ LET chosen == resolve_variant_for_field(registry.tables[args.table],
                                                     args.field, args.context, 0)
             IN /\ chosen.kind = "Some"
                /\ chosen.val \notin
                     DOMAIN registry.tables[args.table].variants[args.field].map

\* C8 (record rendering): the map render_record returns has exactly the keys
\* of the record that render_field renders, each with a render_field result;
\* it does not return exactly when render_field does not for some key.
C8_RecordIsRenderedFields ==
  op = "render_record"
  => LET html(k, iter) ==
           render_field(registry, args.table, k, args.context, args.data[k], iter)
     IN IF ret.kind = "HashMap"
        THEN /\ DOMAIN ret.map =
                  {k \in DOMAIN args.data : \E iter \in AttrIters : html(k, iter) # None}
             /\ DOMAIN ret.map \subseteq DOMAIN args.data
             /\ \A k \in DOMAIN ret.map :
                  \E iter \in AttrIters : html(k, iter) = Some(ret.map[k])
        ELSE \E k \in DOMAIN args.data : \A iter \in AttrIters : html(k, iter) = NoReturn

\* A record with a field that renders and one that does not: only the former
\* is a key of the result.
C8_Witness ==
  /\ op = "render_record"
  /\ DOMAIN args.data = {"name", "nonexistent"}
  /\ ret.kind = "HashMap"
  /\ DOMAIN ret.map = {"name"}

(***************************************************************************)
(* Properties of HTML synthesis                                            *)
(***************************************************************************)
StartsWith(s, prefix) ==
  Len(prefix) <= Len(s) /\ SubSeq(s, 1, Len(prefix)) = prefix

EndsWith(s, suffix) ==
  Len(suffix) <= Len(s) /\ SubSeq(s, Len(s) - Len(suffix) + 1, Len(s)) = suffix

Contains(s, part) ==
  \E i \in 1..(Len(s) - Len(part) + 1) : SubSeq(s, i, i + Len(part) - 1) = part

\* <h2 class="text-xl font-bold">John Doe</h2>
JohnDoeHeading ==
  <<"<", "h", "2", " ", "c", "l", "a", "s", "s", "=", "\"",
    "t", "e", "x", "t", "-", "x", "l", " ", "f", "o", "n", "t", "-", "b", "o", "l", "d",
    "\"", ">", "J", "o", "h", "n", " ", "D", "o", "e", "<", "/", "h", "2", ">">>

\* The variant, theme and value of the scenario: tag h2, extend font-bold,
\* theme CSS text-xl for h2, value John Doe.
HeadingScenario ==
  /\ op = "render_field"
  /\ Styled = Variant("h2", None, Some(FontBold), None)
  /\ "light" \in DOMAIN registry.themes
  /\ "h2" \in DOMAIN registry.themes["light"]
  /\ registry.themes["light"]["h2"] = TextXl
  /\ args.value = JohnDoe

\* C9 (CSS composition): override alone is the classes; extend alone is the
\* classes when the theme CSS is empty and follows the theme CSS and a space
\* otherwise; override and extend together are joined by a space, without the
\* theme CSS; with neither the classes are the theme CSS.  The scenario
\* renders as <h2 class="text-xl font-bold">John Doe</h2>.
C9_CssComposition ==
  /\ op = "build_css_classes"
     => LET o == args.variant.override_class
            e == args.variant.extend
            t == args.theme_css
        IN /\ (o # None /\ e = None) => ret = o.val
           /\ (o = None /\ e # None /\ t = <<>>) => ret = e.val
           /\ (o = None /\ e # None /\ t # <<>>) => ret = t \o <<" ">> \o e.val
           /\ (o # None /\ e # None) => ret = o.val \o <<" ">> \o e.val
           /\ (o = None /\ e = None) => ret = t
  /\ HeadingScenario => ret = Some(JohnDoeHeading)

\* The scenario has been rendered.
C9_Witness == HeadingScenario /\ ret = Some(JohnDoeHeading)

\* C10 (tag emission): for img, input, br and hr the HTML ends with " />",
\* has no closing tag and no content (its only ">" is the last character);
\* for every other tag it starts with <tag and ends with >value</tag>.
C10_TagEmission ==
  op = "generate_html"
  => IF args.tag \in {"img", "input", "br", "hr"}
     THEN /\ StartsWith(ret, <<"<">> \o Chars[args.tag])
          /\ EndsWith(ret, <<" ", "/", ">">>)
          /\ ~Contains(ret, <<"<", "/">>)
          /\ \A i \in 1..(Len(ret) - 1) : ret[i] # ">"
     ELSE /\ StartsWith(ret, <<"<">> \o Chars[args.tag])
          /\ EndsWith(ret, <<">">> \o args.value \o <<"<", "/">> \o Chars[args.tag]
                           \o <<">">>)

\* An img with a non-empty value that its title attribute carries.
C10_Witness ==
  /\ op = "generate_html"
  /\ args.tag = "img"
  /\ args.value = JohnDoe
  /\ "title" \in DOMAIN args.attrs.map
  /\ args.attrs.map["title"] = JohnDoe
  /\ EndsWith(ret, <<"\"", " ", "/", ">">>)

\* One pass over an attribute template, left to right: {value} becomes the
\* raw value and {field} the field name; inserted text is not read again.
RECURSIVE Substitute(_, _, _)
Substitute(template, value, field) ==
  IF template = <<>> THEN <<>>
  ELSE IF StartsWith(template, ValuePlaceholder)
       THEN value \o Substitute(SubSeq(template, Len(ValuePlaceholder) + 1,
                                       Len(template)), value, field)
  ELSE IF StartsWith(template, FieldPlaceholder)
       THEN field \o Substitute(SubSeq(template, Len(FieldPlaceholder) + 1,
                                       Len(template)), value, field)
  ELSE <<Head(template)>> \o Substitute(Tail(template), value, field)

\* C11 (attribute templating): every attribute is its template with {value}
\* replaced by the raw value and {field} by the field name, text brought in
\* by a replacement left as it is; a raw value {field} stays {field}.
C11_TemplatingNotRecursive ==
  op = "build_attributes"
  => \A key \in DOMAIN ret.map :
       ret.map[key] = Substitute(args.variant.attrs.val[key], args.value,
                                 Chars[args.field])

\* C12 (class first): a non-empty class string is emitted as class="..."
\* directly after the tag name, before every attribute of the variant.
C12_ClassFirst ==
  (op = "generate_html" /\ args.css_classes # <<>>)
  => StartsWith(ret, <<"<">> \o Chars[args.tag]
                     \o <<" ", "c", "l", "a", "s", "s", "=", "\"">>
                     \o args.css_classes \o <<"\"">>)

\* An h2 with classes and the attributes id and title.
C12_Witness ==
  /\ op = "generate_html"
  /\ args.tag = "h2"
  /\ args.css_classes = TextXl
  /\ DOMAIN args.attrs.map = {"id", "title"}
  /\ Contains(ret, <<" ", "i", "d", "=">>)
  /\ StartsWith(ret, <<"<", "h", "2", " ", "c", "l", "a", "s", "s", "=">>)

(***************************************************************************)
(* Properties of component rendering                                       *)
(***************************************************************************)
Braces(s) == contains(s, "{") /\ contains(s, "}")

Token(field) == <<"{">> \o Chars[field] \o <<"}">>

\* The record has the field and render_field renders it in context card.
Resolvable(field) ==
  /\ field \in DOMAIN Sample
  /\ \E iter \in AttrIters :
       render_field(registry, "users", field, "card", Sample[field], iter) # None

\* A call of ComponentRegistry::render_component that finds the component
\* and the record.
RenderedUserCard ==
  /\ op = "ComponentRegistry::render_component"
  /\ args.component_name = "user_card"
  /\ args.record_id = One

\* C13 (unresolved placeholders are an error): render_component never
\* returns Ok with both a { and a } in the text, and a template with the
\* token {f} of a field f that the record lacks or that does not render
\* gives Err(UnresolvedPlaceholders).
C13_UnresolvedIsError ==
  /\ (op = "ComponentRegistry::render_component" /\ ret.kind = "Ok") => ~Braces(ret.val)
  /\ (/\ RenderedUserCard
      /\ \E f \in {"a", "b"} : Contains(UserCard.template, Token(f)) /\ ~Resolvable(f))
     => ret = Err(UnresolvedPlaceholders)

\* Template {a}{b}, the record has a but not b: a is substituted, {b} stays.
C13_Witness ==
  /\ RenderedUserCard
  /\ UserCard.template = Token("a") \o Token("b")
  /\ Resolvable("a")
  /\ "b" \notin DOMAIN Sample
  /\ ret = Err(UnresolvedPlaceholders)

\* C14 (Renderer reports unresolved placeholders): Renderer::render_component
\* never returns, as a rendering, a text that has both a { and a }.
C14_RendererReportsUnresolved ==
  op = "Renderer::render_component" => ~(ret.kind = "String" /\ Braces(ret.val))

\* The template is text without braces and tokens {a} and {b}.
RECURSIVE WellFormed(_)
WellFormed(template) ==
  IF template = <<>> THEN TRUE
  ELSE IF \E f \in {"a", "b"} : StartsWith(template, Token(f))
       THEN WellFormed(SubSeq(template, 4, Len(template)))
  ELSE Head(template) \notin {"{", "}"} /\ WellFormed(Tail(template))

\* The placeholders of the template are fields of the record that render.
PlaceholdersResolve(template) ==
  /\ WellFormed(template)
  /\ \A n \in Range(Scan(template, <<>>)) :
       \E f \in {"a", "b"} : Chars[f] = n /\ Resolvable(f)

\* C15 (round trip): a template whose placeholders are all fields of the
\* record that render is rendered without error, and the output has no {
\* and no }, whatever the raw values of the fields are.
C15_RoundTrip ==
  (RenderedUserCard /\ PlaceholdersResolve(UserCard.template))
  => (ret.kind = "Ok" /\ ~contains(ret.val, "{") /\ ~contains(ret.val, "}"))

\* C16 (idempotence): a template in which extract_field_placeholders finds
\* no placeholder comes back unchanged and without error from
\* substitute_template and from Renderer::render_component.
C16_Idempotence ==
  (/\ op \in {"substitute_template", "Renderer::render_component"}
   /\ extract_field_placeholders(args.template) = <<>>)
  => (ret.kind \in {"Ok", "String"} /\ ret.val = args.template)

\* n is the text between a { of the template and the next } after it.
IsToken(template, n) ==
  \E i, j \in DOMAIN template :
    /\ i < j
    /\ template[i] = "{"
    /\ template[j] = "}"
    /\ \A k \in (i + 1)..(j - 1) : template[k] # "}"
    /\ n = SubSeq(template, i + 1, j - 1)

\* The texts that are part of the template.
Parts(template) ==
  {SubSeq(template, i, j) : i \in 1..(Len(template) + 1), j \in 0..Len(template)}

\* C17 (required fields): required_fields is strictly ascending, and a name
\* is in it exactly if it is not empty and the template has it as a token
\* {n}; text after a { without a } is not in it.
C17_RequiredFields ==
  LET required_fields == UserCard.required_fields
      template == UserCard.template
  IN /\ \A i, j \in DOMAIN required_fields :
          i < j => StrLess(required_fields[i], required_fields[j])
     /\ \A n \in Parts(template) \cup Range(required_fields) :
          n \in Range(required_fields) <=> (n # <<>> /\ IsToken(template, n))

(***************************************************************************)
(* Properties of loading, theme switching and lookups                      *)
(***************************************************************************)
\* C18 (theme switching leaves the shared registry alone): whatever calls
\* of with_registry_mut with set_theme have run, the theme of the global
\* registry is light, the one it was initialised with, the global registry
\* is the one load_all made, and render_field on it returns what it returns
\* on a freshly loaded registry.
C18_SharedRegistryUnchanged ==
  /\ get_current_theme(registry) = "light"
  /\ registry = load_all(documents)
  /\ op = "render_field"
     => ret \in Observed(render_field(load_all(documents), args.table, args.field,
                                      args.context, args.value, <<>>))

\* A switch to theme dark, which the themes document has: the closure saw
\* dark as the active theme, the global registry stays light.
C18_Witness ==
  /\ op = "with_registry_mut"
  /\ args.theme_name = "dark"
  /\ "dark" \in DOMAIN registry.themes
  /\ ret.val = "dark"
  /\ get_current_theme(registry) = "light"

\* C19 (per-table load isolation): a table of table_schemas is in the
\* registry, with the schema of its document, exactly if its document
\* parses, wherever in table_schemas it is and whether or not themes.toml
\* parses.
C19_LoadIsolation ==
  \A i \in DOMAIN documents.table_schemas :
    LET doc == documents.table_schemas[i]
    IN IF doc.content.kind = "Ok"
       THEN get_table(registry, doc.table_name) = Some(doc.content.val)
       ELSE get_table(registry, doc.table_name) = None

\* themes.toml does not parse, the first table document does not parse, the
\* second and the third do: list_tables lists the second and the third.
C19_Witness ==
  /\ op = "list_tables"
  /\ documents.themes.kind = "Err"
  /\ Len(documents.table_schemas) = 3
  /\ documents.table_schemas[1].content.kind = "Err"
  /\ documents.table_schemas[2].content.kind = "Ok"
  /\ documents.table_schemas[3].content.kind = "Ok"
  /\ Range(ret.val) = {documents.table_schemas[2].table_name,
                      documents.table_schemas[3].table_name}

\* The table is not in the registry, or it has no sample records.
NoSamples(table) ==
  \/ table \notin DOMAIN registry.tables
  \/ registry.tables[table].mock_data \in {None, Some(<<>>)}

\* C20 (total lookups): every lookup returns; for a table that is not in
\* the registry list_contexts and list_field_variants return an empty Vec,
\* and so does list_field_variants for a field without variants; for such a
\* table or one without sample records get_mock_data and get_mock_records
\* return an empty Vec and get_mock_record returns None.
C20_TotalLookups ==
  /\ op \in {"list_contexts", "list_field_variants", "get_mock_data", "get_mock_records"}
     => ret.kind = "Vec"
  /\ op = "get_mock_record" => ret.kind \in {"None", "Some"}
  /\ (op = "list_contexts" /\ args.table \notin DOMAIN registry.tables)
     => ret = VecOf(<<>>)
  /\ (/\ op = "list_field_variants"
      /\ \/ args.table \notin DOMAIN registry.tables
         \/ args.field \notin DOMAIN registry.tables[args.table].variants)
     => ret = VecOf(<<>>)
  /\ (op \in {"get_mock_data", "get_mock_records"} /\ NoSamples(args.table))
     => ret = VecOf(<<>>)
  /\ (op = "get_mock_record" /\ NoSamples(args.table)) => ret = None

\* get_mock_record for a table that is not in the registry, while another
\* table has sample records.
C20_Witness ==
  /\ op = "get_mock_record"
  /\ args.table = GhostTable
  /\ \E t \in DOMAIN registry.tables : ~NoSamples(t)
  /\ ret = None

\* The positions of the sample records of the table whose id field is id.
Matching(table, id) ==
  LET data == get_mock_data(registry, table)
  IN {i \in DOMAIN data : "id" \in DOMAIN data[i] /\ data[i]["id"] = id}

\* C21 (first match wins): get_mock_record returns the record at the least
\* position among the sample records that have an id field equal to id,
\* and None when there is no such record; a record without id is passed
\* over.
C21_FirstMatch ==
  op = "get_mock_record"
  => LET data == get_mock_data(registry, args.table)
         found == Matching(args.table, args.id)
     IN IF found = {}
        THEN ret = None
        ELSE ret = Some(data[CHOOSE i \in found : \A j \in found : i <= j])

\* Two records have id 1 and a record without id comes before them: the
\* earlier of the two is returned.
C21_Witness ==
  /\ op = "get_mock_record"
  /\ args.id = One
  /\ Cardinality(Matching(args.table, One)) = 2
  /\ "id" \notin DOMAIN get_mock_data(registry, args.table)[1]
  /\ ret = Some(("id" :> One) @@ ("name" :> Jo))

(***************************************************************************)
(* Properties of themes                                                    *)
(***************************************************************************)
\* The active theme is not loaded, or it has no CSS for the tag.
NoThemeCss(reg, tag) ==
  \/ reg.current_theme \notin DOMAIN reg.themes
  \/ tag \notin DOMAIN reg.themes[reg.current_theme]

\* The classes of the CSS table for an empty theme CSS.
ClassesWithoutTheme(variant) ==
  LET o == variant.override_class
      e == variant.extend
  IN IF o # None /\ e # None THEN o.val \o <<" ">> \o e.val
     ELSE IF o # None THEN o.val
     ELSE IF e # None THEN e.val
     ELSE <<>>

ClassAttribute == <<" ", "c", "l", "a", "s", "s", "=", "\"">>

\* C22 (unknown theme, missing tag): when the active theme is not a loaded
\* theme or has no CSS for the tag of the variant, render_field returns
\* HTML whose classes are those of override and extend alone: the tag is
\* followed by class="..." with them, and by no class attribute when they
\* are empty, as when neither override nor extend is set.
C22_NoThemeCss ==
  (op = "render_field" /\ NoThemeCss(registry, Styled.base))
  => /\ ret.kind = "Some"
     /\ LET classes == ClassesWithoutTheme(Styled)
            tag == <<"<">> \o Chars[Styled.base]
        IN IF classes # <<>>
           THEN StartsWith(ret.val, tag \o ClassAttribute \o classes \o <<"\"">>)
           ELSE StartsWith(ret.val, tag) /\ ~Contains(ret.val, ClassAttribute)

\* Only a dark theme is loaded and the active theme is light; a variant h2
\* without override, extend and attributes renders as <h2>John Doe</h2>.
C22_Witness ==
  /\ op = "render_field"
  /\ DOMAIN registry.themes = {"dark"}
  /\ registry.current_theme = "light"
  /\ Styled = Variant("h2", None, None, None)
  /\ args.value = JohnDoe
  /\ ret = Some(<<"<", "h", "2", ">">> \o JohnDoe \o <<"<", "/", "h", "2", ">">>)

(***************************************************************************)
(* Properties of substitution order and of the render parameters           *)
(***************************************************************************)
\* C23 (order independence): what substitute_template returned is what it
\* returns for every order in which rendered_fields may iterate, and what
\* Renderer::render_component returned is what it returns for every order
\* in which the record may iterate.
C23_OrderIndependent ==
  /\ op = "substitute_template"
     => \A order \in FieldIters({"a", "b"}) :
          ret = substitute_template(args.template, args.rendered_fields, order)
  /\ op = "Renderer::render_component"
     => \A order \in FieldIters(DOMAIN args.data), iter \in AttrIters :
          ret = Renderer_render_component(registry, args.template, args.table,
                                          args.context, args.data,
                                          [f \in {"id", "a", "b"} |-> iter], order)

\* The active theme is the initial name or a loaded theme.
ActiveThemeIsLoaded ==
  get_current_theme(registry) \in {"light"} \cup DOMAIN registry.themes

\* C24 (set_theme keeps the active theme loaded): initially and after every
\* call the active theme is light or a key of the themes; no set_theme call
\* changes the themes or the tables, and a call with a name that is not a
\* key of the themes leaves the whole registry as it was.
C24_ActiveThemeIsLoaded ==
  /\ ActiveThemeIsLoaded
  /\ [][/\ ActiveThemeIsLoaded'
        /\ op' = "set_theme"
           => /\ registry'.themes = registry.themes
              /\ registry'.tables = registry.tables
              /\ args'.theme_name \notin DOMAIN registry.themes => registry' = registry]_vars

\* The active theme is dark after an earlier call, and a call with the
\* name neon, which is not loaded, has left it dark.
C24_Witness ==
  /\ op = "set_theme"
  /\ args.theme_name = "neon"
  /\ DOMAIN registry.themes = {"light", "dark"}
  /\ get_current_theme(registry) = "dark"

\* What render_component may return for the component, the record and the
\* context alone, every other parameter absent.
RenderedFor(component_name, record_id, context) ==
  UNION {Observed(render_component(components, registry, component_name, record_id,
                                   RenderParams(context, None, None, None, None),
                                   [f \in {"id", "a", "b"} |-> iter], order)) :
           iter \in AttrIters, order \in FieldIters({"a", "b"})}

\* C25 (theme, platform, format and lang are ignored): what render_component
\* returns is what it returns for the same component, record and context
\* with the other parameters absent; the JSON response of the endpoint
\* carries that HTML and, as theme, the requested name (light if absent).
C25_ParamsIgnored ==
  /\ op = "ComponentRegistry::render_component"
     => ret \in RenderedFor(args.component_name, args.record_id, args.params.context)
  /\ (op = "render_component_api" /\ ret.status = 200 /\ ret.body.kind = "Json")
     => /\ Ok(ret.body.html)
             \in RenderedFor(args.component_name, args.params.id, args.params.context)
        /\ ret.body.theme = IF args.params.theme = None THEN "light"
                            ELSE args.params.theme.val

\* A JSON request with theme dark: the response says dark, the HTML has the
\* CSS of light, the active theme, and not that of dark.
C25_Witness ==
  /\ op = "render_component_api"
  /\ args.params.theme = Some("dark")
  /\ ret.status = 200
  /\ ret.body.kind = "Json"
  /\ ret.body.theme = "dark"
  /\ Contains(ret.body.html, TextXl)
  /\ ~Contains(ret.body.html, TextSm)

====
